---- MODULE Spec2Model ----
(***************************************************************************)
(* Place cache and saved-place ledger of the Travel backend                *)
(* (placesController.ts, tripController.ts, Prisma migrations).            *)
(*                                                                         *)
(* The durable store is four tables (Trip, Place, GooglePlaceCache,        *)
(* UserSavedPlace).  Every Prisma call is one atomic step on the store; a  *)
(* handler with several awaits is a process that other requests interleave *)
(* with between its awaits.  The routes mount isAuthenticated, so the      *)
(* handlers are entered with req.user set to one of Users.                 *)
(***************************************************************************)
EXTENDS Integers, Sequences, FiniteSets, TLC

\* ------------------------------------------------------------------ bounds
NumProcs == 2          \* request handlers that can be in flight together
MaxTime  == 1          \* the clock runs 0..MaxTime
MaxTrips == 2          \* Trip rows ever created (trip ids are never reused)
MaxDays  == 61         \* the clock of the cache's life runs 0..MaxDays days

Procs == 1..NumProcs
Users == {1, 2}
ExternalIds == {"X1", "X2", "X3"}

\* JavaScript undefined / SQL NULL for strings, and optional values
Absent == "undefined"
Null   == "null"
None   == <<>>
Some(x) == <<x>>
IsSome(o) == Len(o) = 1
Val(o) == o[1]

WISHLIST == "WISHLIST"
VISITED  == "VISITED"
SKIPPED  == "SKIPPED"
Status == {WISHLIST, VISITED, SKIPPED}
\* a status string that is not a member of the Status enum
BOGUS == "BOGUS"

MyTrip == <<"My Trip">>

VARIABLES
  now,        \* wall clock (new Date(), CURRENT_TIMESTAMP)
  trips,      \* Trip rows
  nextTrip,   \* number of Trip rows created so far
  places,     \* Place rows
  caches,     \* GooglePlaceCache rows
  saved,      \* UserSavedPlace rows
  slot,       \* per request handler: position and locals
  reply       \* the response sent by the latest step, None if it sent none

vars == <<now, trips, nextTrip, places, caches, saved, slot, reply>>
tables == <<trips, places, caches, saved>>

\* ------------------------------------------------------------ input domains
Locations == {[lat |-> 0, lng |-> 0], [lat |-> 1, lng |-> 0]}
Geometries == {None, Some([location |-> None])}
                \cup {Some([location |-> Some(l)]) : l \in Locations}
\* GooglePlace of types/googleMaps.ts, as it arrives at run time
GooglePlaces == [place_id : ExternalIds \cup {"", Absent},
                 geometry : Geometries,
                 formatted_address : {"addr"}]
PlaceInputs == {None} \cup {Some(g) : g \in GooglePlaces}
StatusInputs == {Absent, BOGUS} \cup Status
NoteInputs == {Absent, "n1"}
TripIdSeq == <<"t1", "t2", "t3", "t4">>
TripIdInputs == {Absent} \cup {TripIdSeq[i] : i \in 1..MaxTrips}
TripNameInputs == {<<>>, <<" ">>, MyTrip, <<" ", "Goa", " ">>}

\* --------------------------------------------------------- JavaScript bits
\* !x for a string-or-undefined value
Falsy(x) == x = Absent \/ x = ""

\* String.prototype.trim on a name given as a sequence of tokens, " " being
\* white space
RECURSIVE TrimLeft(_)
TrimLeft(s) == IF s # <<>> /\ Head(s) = " " THEN TrimLeft(Tail(s)) ELSE s
RECURSIVE TrimRight(_)
TrimRight(s) ==
  IF s # <<>> /\ s[Len(s)] = " " THEN TrimRight(SubSeq(s, 1, Len(s) - 1)) ELSE s
Trim(s) == TrimRight(TrimLeft(s))

\* data.status || Status.WISHLIST
DefaultStatus_Visited(status) == IF Falsy(status) THEN VISITED ELSE status
DefaultStatus(status) == IF Falsy(status) THEN WISHLIST ELSE status

\* status === Status.VISITED ? new Date() : null
VisitedAtFor(status, t) == IF status = VISITED THEN Some(t) ELSE None

\* ----------------------------------------------------------------- storage
\* unique indexes: may a row with this key be inserted?
Place_placeId_key(ps, e) == \A r \in ps : r.placeId # e
GooglePlaceCache_placeId_key(cs, e) == \A r \in cs : r.placeId # e
UserSavedPlace_userId_placeId_key_PerTrip(sv, u, e) == TRUE
UserSavedPlace_userId_placeId_key(sv, u, e) ==
  \A r \in sv : ~(r.userId = u /\ r.placeId = e)
\* foreign keys of UserSavedPlace
UserSavedPlace_tripId_fkey(ts, id) == \E t \in ts : t.id = id
UserSavedPlace_placeId_fkey(ps, e) == \E r \in ps : r.placeId = e

\* a primary key not used by any row of the table
NewId(rows) ==
  CHOOSE i \in 1..(Cardinality(rows) + 1) : \A r \in rows : r.id # i

TripById(id) == {t \in trips : t.id = id}
PlaceByPlaceId(e) == {r \in places : r.placeId = e}
SavedByUserPlace(sv, u, e) == {r \in sv : r.userId = u /\ r.placeId = e}

\* ------------------------------------------------------- request handlers
Idle == [pc |-> "idle", user |-> 0, place |-> None, status |-> Absent,
         userNotes |-> Absent, trip_id |-> Absent, tripId |-> Absent,
         wrote |-> FALSE, fresh |-> FALSE, query |-> None, name |-> None,
         madeTrip |-> FALSE]

Response(op, user, code, message, error, data) ==
  Some([op |-> op, user |-> user, code |-> code, message |-> message,
        error |-> error, data |-> data])

Free(p) == slot[p].pc = "idle"
\* the handler sends r and returns: its locals are gone
Return(p, r) == slot' = [slot EXCEPT ![p] = Idle] /\ reply' = r
\* the handler moves on to its next await without responding
Goto(p, s) == slot' = [slot EXCEPT ![p] = s] /\ reply' = None

\* the catch block of addPlaceFromGoogleMapsToDb
IngestFail(u, error) ==
  Response("addPlace", u, 500, "Failed to add and save place", error, None)

\* the three validation returns of addPlaceFromGoogleMapsToDb
ValidateIngest_NoGeometry(place) ==
  IF ~IsSome(place) THEN "Place data is required in request body"
  ELSE IF Falsy(Val(place).place_id) THEN "Google Place ID is required"
  ELSE "ok"
ValidateIngest(place) ==
  IF ~IsSome(place) THEN "Place data is required in request body"
  ELSE IF Falsy(Val(place).place_id) THEN "Google Place ID is required"
  ELSE IF ~IsSome(Val(place).geometry)
          \/ ~IsSome(Val(Val(place).geometry).location)
       THEN "Place coordinates (geometry.location) are required"
  ELSE "ok"

\* place.geometry.location of a payload
HasLocation(place) ==
  /\ IsSome(place)
  /\ IsSome(Val(place).geometry)
  /\ IsSome(Val(Val(place).geometry).location)
LocationOf(g) == Val(Val(g.geometry).location)

\* trip.findUnique by id and the checks on its result: 404 when there is no
\* such trip, 403 when it belongs to somebody else, 200 when the handler goes on
TripCheck_NoOwner(ts, u, id) == IF \A t \in ts : t.id # id THEN 404 ELSE 200
TripCheck(ts, u, id) ==
  IF \A t \in ts : t.id # id THEN 404
  ELSE IF \E t \in ts : t.id = id /\ t.userId # u THEN 403
  ELSE 200

\* addPlaceFromGoogleMapsToDb up to and including its first query:
\* validation, then trip.findFirst (no trip_id) or trip.findUnique
IngestHandler(p, u, place, status, userNotes, trip_id) ==
  /\ UNCHANGED <<now, trips, nextTrip, places, caches, saved>>
  /\ LET v == ValidateIngest(place)
         req == [Idle EXCEPT !.user = u, !.place = place,
                   !.status = status, !.userNotes = userNotes,
                   !.trip_id = trip_id,
                   !.fresh = /\ \A t \in trips : t.userId # u
                             /\ PlaceByPlaceId(Val(place).place_id) = {}]
     IN
     IF v # "ok" THEN Return(p, Response("addPlace", u, 400, v, "", None))
     ELSE IF ~HasLocation(place) THEN Return(p, IngestFail(u, "TypeError"))
     ELSE IF Falsy(trip_id)
       THEN LET found == {t \in trips : t.userId = u /\ t.name = MyTrip} IN
            IF found = {}
              THEN Goto(p, [req EXCEPT !.pc = "createTrip"])
              ELSE \E t \in found :
                     Goto(p, [req EXCEPT !.pc = "findPlace", !.tripId = t.id])
     ELSE LET c == TripCheck(trips, u, trip_id) IN
          IF c = 404
            THEN Return(p, Response("addPlace", u, 404, "Trip not found", "", None))
          ELSE IF c = 403
            THEN Return(p, Response("addPlace", u, 403,
                   "You don't have permission to add places to this trip",
                   "", None))
          ELSE Goto(p, [req EXCEPT !.pc = "findPlace", !.tripId = trip_id])

\* isAuthenticated: the request has arrived and the middleware has looked its
\* user up; next() has not run the handler yet
Authenticate(p, u, place, status, userNotes, trip_id) ==
  /\ Free(p)
  /\ Goto(p, [Idle EXCEPT !.pc = "handler", !.user = u, !.place = place,
                 !.status = status, !.userNotes = userNotes,
                 !.trip_id = trip_id])
  /\ UNCHANGED <<now, trips, nextTrip, places, caches, saved>>

\* next(): the handler runs on the request the middleware has passed on
IngestStart(p) ==
  /\ slot[p].pc = "handler"
  /\ IngestHandler(p, slot[p].user, slot[p].place, slot[p].status,
                   slot[p].userNotes, slot[p].trip_id)

\* the middleware reads only the User table, which no operation of the model
\* writes: it and the handler's first segment taken as one step
IngestBegin(p, u, place, status, userNotes, trip_id) ==
  /\ Free(p)
  /\ IngestHandler(p, u, place, status, userNotes, trip_id)

\* prisma.trip.create of the default trip
CreateDefaultTrip(p) ==
  /\ slot[p].pc = "createTrip"
  /\ nextTrip < MaxTrips
  /\ LET id == TripIdSeq[nextTrip + 1] IN
     /\ trips' = trips \cup {[id |-> id, userId |-> slot[p].user, name |-> MyTrip]}
     /\ Goto(p, [slot[p] EXCEPT !.pc = "findPlace", !.tripId = id,
                               !.madeTrip = TRUE])
  /\ nextTrip' = nextTrip + 1
  /\ UNCHANGED <<now, places, caches, saved>>

\* prisma.place.findUnique by placeId
FindPlace_Refresh(p) ==
  /\ slot[p].pc = "findPlace"
  /\ LET g == Val(slot[p].place)
         found == PlaceByPlaceId(g.place_id)
     IN /\ Goto(p, [slot[p] EXCEPT !.pc =
                      IF found = {} THEN "createPlace" ELSE "findSaved"])
        /\ places' = {IF r \in found
                        THEN [r EXCEPT !.lat = LocationOf(g).lat,
                                       !.lng = LocationOf(g).lng]
                        ELSE r : r \in places}
        /\ caches' = {IF c.placeId = g.place_id
                        THEN [c EXCEPT !.formattedAddress = g.formatted_address,
                                       !.fetchedAt = now]
                        ELSE c : c \in caches}
  /\ UNCHANGED <<now, trips, nextTrip, saved>>
FindPlace(p) ==
  /\ slot[p].pc = "findPlace"
  /\ Goto(p, [slot[p] EXCEPT !.pc =
                IF PlaceByPlaceId(Val(slot[p].place).place_id) = {}
                  THEN "createPlace" ELSE "findSaved"])
  /\ UNCHANGED <<now, trips, nextTrip, places, caches, saved>>

\* the nested write place.create { cache: { create } } is one statement group:
\* both rows are inserted or the write throws
PlaceCreateAllowed_NoIndex(ps, cs, e) == TRUE
PlaceCreateAllowed(ps, cs, e) ==
  Place_placeId_key(ps, e) /\ GooglePlaceCache_placeId_key(cs, e)

\* the rows of place.create; createdAt and fetchedAt default to
\* CURRENT_TIMESTAMP
NewPlace(ps, g, t) ==
  [id |-> NewId(ps), placeId |-> g.place_id, lat |-> LocationOf(g).lat,
   lng |-> LocationOf(g).lng, createdAt |-> t]
NewCache(cs, g, t) ==
  [id |-> NewId(cs), placeId |-> g.place_id,
   formattedAddress |-> g.formatted_address, fetchedAt |-> t]

CreatePlace_PlaceOnly(p) ==
  /\ slot[p].pc = "createPlace"
  /\ UNCHANGED <<now, trips, nextTrip, saved, caches>>
  /\ LET g == Val(slot[p].place) IN
     IF PlaceCreateAllowed(places, caches, g.place_id)
       THEN /\ places' = places \cup {NewPlace(places, g, now)}
            /\ Goto(p, [slot[p] EXCEPT !.pc = "findSaved", !.wrote = TRUE])
       ELSE /\ Return(p, IngestFail(slot[p].user, "UniqueConstraint"))
            /\ UNCHANGED places
CreatePlace(p) ==
  /\ slot[p].pc = "createPlace"
  /\ UNCHANGED <<now, trips, nextTrip, saved>>
  /\ LET g == Val(slot[p].place) IN
     IF PlaceCreateAllowed(places, caches, g.place_id)
       THEN /\ places' = places \cup {NewPlace(places, g, now)}
            /\ caches' = caches \cup {NewCache(caches, g, now)}
            /\ Goto(p, [slot[p] EXCEPT !.pc = "findSaved", !.wrote = TRUE])
       ELSE /\ Return(p, IngestFail(slot[p].user, "UniqueConstraint"))
            /\ UNCHANGED <<places, caches>>

\* what userSavedPlace.findUnique by (userId, placeId) returns
FindSavedResult_Miss(sv, u, e) == {}
FindSavedResult(sv, u, e) == SavedByUserPlace(sv, u, e)

\* prisma.userSavedPlace.findUnique and the "already saved" return
FindSaved(p) ==
  /\ slot[p].pc = "findSaved"
  /\ UNCHANGED <<now, trips, nextTrip, places, caches, saved>>
  /\ LET found == FindSavedResult(saved, slot[p].user,
                                  Val(slot[p].place).place_id) IN
     IF found = {}
       THEN Goto(p, [slot[p] EXCEPT !.pc = "createSaved"])
       ELSE \E r \in found :
              Return(p, Response("addPlace", slot[p].user, 400,
                                 "You have already saved this place", "",
                                 Some(r)))

\* the row of userSavedPlace.create
NewSaved(sv, s, t) ==
  [id |-> NewId(sv), userId |-> s.user, placeId |-> Val(s.place).place_id,
   tripId |-> s.tripId, status |-> DefaultStatus(s.status),
   userNotes |-> IF s.userNotes = Absent THEN Null ELSE s.userNotes,
   visitedAt |-> VisitedAtFor(DefaultStatus(s.status), t),
   createdAt |-> t]

\* prisma.userSavedPlace.create
CreateSaved(p) ==
  /\ slot[p].pc = "createSaved"
  /\ UNCHANGED <<now, trips, nextTrip, places, caches>>
  /\ LET u == slot[p].user
         row == NewSaved(saved, slot[p], now)
     IN
     IF row.status \notin Status
       THEN Return(p, IngestFail(u, "InvalidEnumValue")) /\ UNCHANGED saved
     ELSE IF ~UserSavedPlace_userId_placeId_key(saved, u, row.placeId)
       THEN Return(p, IngestFail(u, "UniqueConstraint")) /\ UNCHANGED saved
     ELSE IF ~(UserSavedPlace_tripId_fkey(trips, row.tripId)
               /\ UserSavedPlace_placeId_fkey(places, row.placeId))
       THEN Return(p, IngestFail(u, "ForeignKeyConstraint")) /\ UNCHANGED saved
     ELSE /\ saved' = saved \cup {row}
          /\ Return(p, Response("addPlace", u, 201,
                                "Place created and saved successfully", "",
                                Some(row)))

\* updateData of updatePlaceStatus: a field is None when it is not assigned
UpdateData_KeepVisitedAt(status, userNotes, t) ==
  [status    |-> IF status # Absent THEN Some(status) ELSE None,
   visitedAt |-> IF status = VISITED THEN Some(Some(t)) ELSE None,
   userNotes |-> IF userNotes # Absent THEN Some(userNotes) ELSE None]
UpdateData(status, userNotes, t) ==
  [status    |-> IF status # Absent THEN Some(status) ELSE None,
   visitedAt |-> IF status # Absent THEN Some(VisitedAtFor(status, t)) ELSE None,
   userNotes |-> IF userNotes # Absent THEN Some(userNotes) ELSE None]

\* prisma update { data }: only the assigned fields are written
ApplyUpdate_Overwrite(row, d) ==
  [row EXCEPT !.status    = IF IsSome(d.status) THEN Val(d.status) ELSE @,
              !.visitedAt = IF IsSome(d.visitedAt) THEN Val(d.visitedAt) ELSE @,
              !.userNotes = IF IsSome(d.userNotes) THEN Val(d.userNotes) ELSE Null]
ApplyUpdate(row, d) ==
  [row EXCEPT !.status    = IF IsSome(d.status) THEN Val(d.status) ELSE @,
              !.visitedAt = IF IsSome(d.visitedAt) THEN Val(d.visitedAt) ELSE @,
              !.userNotes = IF IsSome(d.userNotes) THEN Val(d.userNotes) ELSE @]

\* updatePlaceStatus: one prisma.userSavedPlace.update by (userId, placeId)
UpdatePlaceStatus_AnyUser(u, place_id, status, userNotes) ==
  /\ UNCHANGED <<now, trips, nextTrip, places, caches, slot>>
  /\ LET d == UpdateData(status, userNotes, now)
         found == SavedByUserPlace(saved, u, place_id)
     IN
     IF (status # Absent /\ status \notin Status) \/ found = {}
       THEN /\ reply' = Response("updateStatus", u, 500,
                                 "Failed to update place status", "", None)
            /\ UNCHANGED saved
       ELSE \E r \in found :
              /\ saved' = {IF x.placeId = place_id THEN ApplyUpdate(x, d)
                                                   ELSE x : x \in saved}
              /\ reply' = Response("updateStatus", u, 200,
                                   "Place status updated successfully", "",
                                   Some(ApplyUpdate(r, d)))
UpdatePlaceStatus(u, place_id, status, userNotes) ==
  /\ UNCHANGED <<now, trips, nextTrip, places, caches, slot>>
  /\ LET d == UpdateData(status, userNotes, now)
         found == SavedByUserPlace(saved, u, place_id)
     IN
     IF (status # Absent /\ status \notin Status) \/ found = {}
       THEN /\ reply' = Response("updateStatus", u, 500,
                                 "Failed to update place status", "", None)
            /\ UNCHANGED saved
       ELSE \E r \in found :
              /\ saved' = (saved \ {r}) \cup {ApplyUpdate(r, d)}
              /\ reply' = Response("updateStatus", u, 200,
                                   "Place status updated successfully", "",
                                   Some(ApplyUpdate(r, d)))

\* createTrip: validation, then one prisma.trip.create
CreateTrip(u, name) ==
  /\ UNCHANGED <<now, places, caches, saved, slot>>
  /\ IF name = <<>> \/ Len(Trim(name)) = 0
       THEN /\ reply' = Response("createTrip", u, 400, "Trip name is required",
                                 "", None)
            /\ UNCHANGED <<trips, nextTrip>>
       ELSE /\ nextTrip < MaxTrips
            /\ trips' = trips \cup {[id |-> TripIdSeq[nextTrip + 1],
                                     userId |-> u, name |-> Trim(name)]}
            /\ nextTrip' = nextTrip + 1
            /\ reply' = Response("createTrip", u, 201,
                                 "Trip created successfully", "", None)

\* updateTrip up to and including prisma.trip.findUnique and the check of the
\* name; name is None when the body has none
UpdateTripBegin(p, u, id, name) ==
  /\ Free(p)
  /\ UNCHANGED <<now, trips, nextTrip, places, caches, saved>>
  /\ LET c == TripCheck(trips, u, id) IN
     IF c = 404
       THEN Return(p, Response("updateTrip", u, 404, "Trip not found", "", None))
     ELSE IF c = 403
       THEN Return(p, Response("updateTrip", u, 403,
                     "You don't have permission to update this trip", "", None))
     ELSE IF IsSome(name) /\ Len(Trim(Val(name))) = 0
       THEN Return(p, Response("updateTrip", u, 400,
                     "Trip name cannot be empty", "", None))
     ELSE Goto(p, [Idle EXCEPT !.pc = "updateTrip", !.user = u, !.tripId = id,
                               !.name = name])

\* prisma.trip.update: name, city and Country only
UpdateTripUpdate(p) ==
  /\ slot[p].pc = "updateTrip"
  /\ UNCHANGED <<now, nextTrip, places, caches, saved>>
  /\ IF TripById(slot[p].tripId) = {}
       THEN /\ Return(p, Response("updateTrip", slot[p].user, 500,
                                  "Failed to update trip", "RecordNotFound", None))
            /\ UNCHANGED trips
       ELSE /\ trips' = {IF t.id = slot[p].tripId /\ IsSome(slot[p].name)
                           THEN [t EXCEPT !.name = Trim(Val(slot[p].name))]
                           ELSE t : t \in trips}
            /\ Return(p, Response("updateTrip", slot[p].user, 200,
                                  "Trip updated successfully", "", None))

\* deleteTrip up to and including prisma.trip.findUnique
DeleteTripBegin(p, u, id) ==
  /\ Free(p)
  /\ UNCHANGED <<now, trips, nextTrip, places, caches, saved>>
  /\ LET c == TripCheck(trips, u, id) IN
     IF c = 404
       THEN Return(p, Response("deleteTrip", u, 404, "Trip not found", "", None))
     ELSE IF c = 403
       THEN Return(p, Response("deleteTrip", u, 403,
                     "You don't have permission to delete this trip", "", None))
     ELSE Goto(p, [Idle EXCEPT !.pc = "deleteTrip", !.user = u, !.tripId = id])

\* prisma.trip.delete; UserSavedPlace_tripId_fkey is ON DELETE CASCADE
DeleteTripDelete_Purge(p) ==
  /\ slot[p].pc = "deleteTrip"
  /\ UNCHANGED <<now, nextTrip, places, caches>>
  /\ trips' = trips \ TripById(slot[p].tripId)
  /\ saved' = {}
  /\ Return(p, Response("deleteTrip", slot[p].user, 200,
                        "Trip deleted successfully", "", None))
DeleteTripDelete_NoCascade(p) ==
  /\ slot[p].pc = "deleteTrip"
  /\ UNCHANGED <<now, nextTrip, places, caches, saved>>
  /\ trips' = trips \ TripById(slot[p].tripId)
  /\ Return(p, Response("deleteTrip", slot[p].user, 200,
                        "Trip deleted successfully", "", None))
DeleteTripDelete(p) ==
  /\ slot[p].pc = "deleteTrip"
  /\ UNCHANGED <<now, nextTrip, places, caches>>
  /\ IF TripById(slot[p].tripId) = {}
       THEN /\ Return(p, Response("deleteTrip", slot[p].user, 500,
                                  "Failed to delete trip", "RecordNotFound", None))
            /\ UNCHANGED <<trips, saved>>
       ELSE /\ trips' = trips \ TripById(slot[p].tripId)
            /\ saved' = {r \in saved : r.tripId # slot[p].tripId}
            /\ Return(p, Response("deleteTrip", slot[p].user, 200,
                                  "Trip deleted successfully", "", None))

\* ----------------------------------------------------------- getNearbyPlaces
\* A query parameter is None when the query string lacks it, else Some(text),
\* the text a sequence of characters.  Numbers parsed from query strings are
\* kept in hundredths (centidegrees, centimetres); the coordinates of payloads
\* and of Place rows are whole degrees.
IsDigit(c) == c \in {"0", "1", "2", "3", "4", "5", "6", "7", "8", "9"}
DigitVal(c) ==
  CASE c = "0" -> 0 [] c = "1" -> 1 [] c = "2" -> 2 [] c = "3" -> 3
    [] c = "4" -> 4 [] c = "5" -> 5 [] c = "6" -> 6 [] c = "7" -> 7
    [] c = "8" -> 8 [] c = "9" -> 9
\* the digits a text starts with
RECURSIVE LeadingDigits(_)
LeadingDigits(s) ==
  IF s # <<>> /\ IsDigit(Head(s)) THEN <<Head(s)>> \o LeadingDigits(Tail(s))
  ELSE <<>>
RECURSIVE DecimalValue(_)
DecimalValue(ds) ==
  IF ds = <<>> THEN 0
  ELSE 10 * DecimalValue(SubSeq(ds, 1, Len(ds) - 1)) + DigitVal(ds[Len(ds)])
\* parseFloat: the longest numeric prefix (sign, digits, fraction), whatever
\* follows it; None is NaN.  The value is in hundredths, further decimals cut.
ParseFloat(s) ==
  LET neg  == s # <<>> /\ Head(s) = "-"
      t    == IF neg THEN Tail(s) ELSE s
      int  == LeadingDigits(t)
      rest == SubSeq(t, Len(int) + 1, Len(t))
      frac == IF rest # <<>> /\ Head(rest) = "." THEN LeadingDigits(Tail(rest))
              ELSE <<>>
      cut  == SubSeq(frac \o <<"0", "0">>, 1, 2)
  IN IF int = <<>> /\ frac = <<>> THEN None
     ELSE Some((IF neg THEN -1 ELSE 1)
                 * (100 * DecimalValue(int) + DecimalValue(cut)))

\* !lat: the parameter is missing or empty
Missing(q) == ~IsSome(q) \/ Val(q) = <<>>

DefaultRadius == 200000   \* 2000 m, in centimetres
\* the validation of getNearbyPlaces: the message of the 400 it returns, or
\* "ok"
ValidateNearby_NoRange(lat, lng, radius) ==
  IF Missing(lat) \/ Missing(lng)
    THEN "Latitude (lat) and longitude (lng) are required query parameters"
  ELSE LET userLat == ParseFloat(Val(lat))
           userLng == ParseFloat(Val(lng))
           radiusMeters == IF Missing(radius) THEN Some(DefaultRadius)
                           ELSE ParseFloat(Val(radius))
       IN IF ~IsSome(userLat) \/ ~IsSome(userLng) \/ ~IsSome(radiusMeters)
            THEN "Invalid latitude, longitude, or radius values"
          ELSE "ok"
ValidateNearby(lat, lng, radius) ==
  IF Missing(lat) \/ Missing(lng)
    THEN "Latitude (lat) and longitude (lng) are required query parameters"
  ELSE LET userLat == ParseFloat(Val(lat))
           userLng == ParseFloat(Val(lng))
           radiusMeters == IF Missing(radius) THEN Some(DefaultRadius)
                           ELSE ParseFloat(Val(radius))
       IN IF ~IsSome(userLat) \/ ~IsSome(userLng) \/ ~IsSome(radiusMeters)
            THEN "Invalid latitude, longitude, or radius values"
          ELSE IF Val(userLat) < -9000 \/ Val(userLat) > 9000
            THEN "Latitude must be between -90 and 90"
          ELSE IF Val(userLng) < -18000 \/ Val(userLng) > 18000
            THEN "Longitude must be between -180 and 180"
          ELSE IF Val(radiusMeters) <= 0
            THEN "Radius must be greater than 0"
          ELSE "ok"

\* ---- the distance expression of the raw query
\*   6371 * acos(cos(radians(lat1)) * cos(radians(lat2))
\*               * cos(radians(lng2) - radians(lng1))
\*               + sin(radians(lat1)) * sin(radians(lat2)))
\* The places and the query points of the model lie on one meridian, where the
\* argument of acos is cos(lat1 - lat2) and the angle is |lat1 - lat2|.
\* Angles are in nanoradians, distances in centimetres.
EarthRadiusKm == 6371
\* radians(): pi / 180 for a hundredth of a degree, in nanoradians
NanoradPerCentidegree == 174533
Radians(c) == c * NanoradPerCentidegree
Abs(x) == IF x < 0 THEN -x ELSE x
\* cos^2 + sin^2 of a latitude as double arithmetic evaluates it
\* (cos(radians(lat)) * cos(radians(lat)) * cos(0) + sin(..) * sin(..)),
\* in units in the last place above 1: at 3 degrees it is 1 - 2^-53, at 8
\* degrees 1 + 2^-52, at 0, 1 and 2 degrees exactly 1
SumOfSquaresUlps(latDeg) ==
  CASE latDeg = 3 -> -1
    [] latDeg = 8 -> 1
    [] OTHER -> 0
\* acos(1 - 2^-53), in nanoradians
AcosBelowOne == 15
\* acos of the argument: the angle in nanoradians, or None when the argument
\* is above 1 ("input is out of range")
CentralAngle(userLat, placeLat) ==
  IF userLat = 100 * placeLat
    THEN IF SumOfSquaresUlps(placeLat) > 0 THEN None
         ELSE IF SumOfSquaresUlps(placeLat) < 0 THEN Some(AcosBelowOne)
         ELSE Some(0)
    ELSE Some(Radians(Abs(userLat - 100 * placeLat)))
\* 6371 km * angle, in centimetres: 0.6371 cm for a nanoradian
DistanceCm(nrad) ==
  (nrad \div 10000) * EarthRadiusKm
    + ((nrad % 10000) * EarthRadiusKm) \div 10000
\* "distanceKm" of a Place row, None when acos raises
DistanceKm(userLat, r) ==
  LET a == CentralAngle(userLat, r.lat) IN
  IF IsSome(a) THEN Some(DistanceCm(Val(a))) ELSE None

\* rounding to the nearest multiple of unit (Math.round, toFixed)
RoundTo(x, unit) == (x + unit \div 2) \div unit
\* Number(distanceKm.toFixed(2)), in hundredths of a kilometre
DistanceKmRounded(cm) == RoundTo(cm, 1000)
\* Math.round(distanceKm * 1000), in metres
DistanceMeters(cm) == RoundTo(cm, 100)

\* FROM "UserSavedPlace" usp JOIN "Place" p ... WHERE usp."userId" = user.id
\* [AND usp.status = status]: the joined rows before the distance condition
NearbyCandidates_AnyUser(sv, ps, u, status) ==
  {c \in sv \X ps :
     /\ c[1].placeId = c[2].placeId
     /\ Falsy(status) \/ c[1].status = status}
NearbyCandidates(sv, ps, u, status) ==
  {c \in sv \X ps :
     /\ c[1].userId = u
     /\ c[1].placeId = c[2].placeId
     /\ Falsy(status) \/ c[1].status = status}
\* SQL leaves open on which rows a condition is evaluated.  The distance
\* condition reads the Place columns only: a plan evaluates it on the Place
\* rows it joins ("join"), or on every Place row while it scans the table
\* ("scan").
Plans == {"join", "scan"}
NearbyEvaluated(plan, cands, ps) ==
  IF plan = "scan" THEN ps ELSE {c[2] : c \in cands}
\* AND distance <= radiusKm
WithinRadius(cm, radius) == cm <= radius
\* the rows of the raw query, unordered
NearbyRows(cands, userLat, radius) ==
  {[saved |-> c[1], lat |-> c[2].lat, lng |-> c[2].lng,
    distanceKm |-> Val(DistanceKm(userLat, c[2]))] :
     c \in {d \in cands :
              /\ IsSome(DistanceKm(userLat, d[2]))
              /\ WithinRadius(Val(DistanceKm(userLat, d[2])), radius)}}
\* ORDER BY "distanceKm" ASC: every order of the rows that ascends in
\* distance (rows at the same distance come in any order)
NearbyOrder_Unsorted(rows) ==
  {s \in [1..Cardinality(rows) -> rows] :
     \A i, j \in 1..Cardinality(rows) : i # j => s[i] # s[j]}
NearbyOrder(rows) ==
  {s \in [1..Cardinality(rows) -> rows] :
     \A i, j \in 1..Cardinality(rows) :
       /\ i # j => s[i] # s[j]
       /\ i < j => s[i].distanceKm <= s[j].distanceKm}
\* place.findUnique({ include: { cache: true } }) of the enrichment
PlaceWithCache(ps, cs, e) ==
  IF \E r \in ps : r.placeId = e
    THEN Some([row   |-> CHOOSE r \in ps : r.placeId = e,
               cache |-> IF \E c \in cs : c.placeId = e
                           THEN Some(CHOOSE c \in cs : c.placeId = e)
                           ELSE None])
    ELSE None
\* Promise.all(nearbyPlaces.map(...)): the results in the order of the rows
Enrich(rows, ps, cs) ==
  [i \in 1..Len(rows) |->
     [saved |-> rows[i].saved, lat |-> rows[i].lat, lng |-> rows[i].lng,
      distanceKm |-> DistanceKmRounded(rows[i].distanceKm),
      distanceMeters |-> DistanceMeters(rows[i].distanceKm),
      place |-> PlaceWithCache(ps, cs, rows[i].saved.placeId)]]

NearbyFail(u, error) ==
  Response("nearby", u, 500, "Failed to fetch nearby places", error, None)

\* getNearbyPlaces, from its validation to its response, as the responses it
\* can give on the tables sv, ps, cs.  No handler updates or deletes a Place or
\* a GooglePlaceCache row, so the lookups of the enrichment read what the raw
\* query joined: the handler is taken as one step.
NearbyReplies(sv, ps, cs, u, lat, lng, radius, status) ==
  LET v == ValidateNearby(lat, lng, radius) IN
  IF v # "ok" THEN {Response("nearby", u, 400, v, "", None)}
  ELSE IF ~Falsy(status) /\ status \notin Status
    THEN {NearbyFail(u, "InvalidEnumValue")}
  ELSE
    LET userLat == Val(ParseFloat(Val(lat)))
        radiusMeters == IF Missing(radius) THEN DefaultRadius
                        ELSE Val(ParseFloat(Val(radius)))
        cands == NearbyCandidates(sv, ps, u, status)
    IN UNION {IF \E r \in NearbyEvaluated(plan, cands, ps) :
                   ~IsSome(DistanceKm(userLat, r))
                THEN {NearbyFail(u, "input is out of range")}
                ELSE {Response("nearby", u, 200, "Found", "",
                        Some([count  |-> Len(rows),
                              places |-> Enrich(rows, ps, cs)])) :
                        rows \in NearbyOrder(NearbyRows(cands, userLat,
                                                        radiusMeters))} :
              plan \in Plans}
GetNearbyPlaces(u, lat, lng, radius, status) ==
  /\ UNCHANGED <<now, trips, nextTrip, places, caches, saved>>
  /\ reply' \in NearbyReplies(saved, places, caches, u, lat, lng, radius,
                              status)

\* isAuthenticated for GET /places/nearby: the query has arrived, the handler
\* has not run yet
NearbyArrive(p, u, lat, lng, radius, status) ==
  /\ Free(p)
  /\ Goto(p, [Idle EXCEPT !.pc = "nearby", !.user = u,
                          !.query = Some(<<lat, lng, radius, status>>)])
  /\ UNCHANGED <<now, trips, nextTrip, places, caches, saved>>
\* next(): the handler runs and answers
NearbyStart(p) ==
  /\ slot[p].pc = "nearby"
  /\ LET q == Val(slot[p].query) IN
       GetNearbyPlaces(slot[p].user, q[1], q[2], q[3], q[4])
  /\ slot' = [slot EXCEPT ![p] = Idle]

\* getSavedPlaces: userSavedPlace.findMany of the user, each row with its
\* Place and the Place's cache
GetSavedPlaces(u) ==
  /\ UNCHANGED <<now, trips, nextTrip, places, caches, saved, slot>>
  /\ reply' = Response("getSaved", u, 200, "", "",
                Some({[saved |-> r,
                       place |-> PlaceWithCache(places, caches, r.placeId)] :
                        r \in {x \in saved : x.userId = u}}))

\* getAllPlaces: place.findMany, each Place with its cache
GetAllPlaces_Purge(u) ==
  /\ UNCHANGED <<now, trips, nextTrip, places, saved, slot>>
  /\ caches' = {c \in caches : now - c.fetchedAt <= 30}
  /\ reply' = Response("getAll", u, 200, "", "",
                Some({PlaceWithCache(places, caches', r.placeId) :
                        r \in places}))
GetAllPlaces(u) ==
  /\ UNCHANGED <<now, trips, nextTrip, places, caches, saved, slot>>
  /\ reply' = Response("getAll", u, 200, "", "",
                Some({PlaceWithCache(places, caches, r.placeId) :
                        r \in places}))

\* time passes
Tick ==
  /\ now < MaxTime
  /\ now' = now + 1
  /\ reply' = None
  /\ UNCHANGED <<trips, nextTrip, places, caches, saved, slot>>

Init ==
  /\ now = 0
  /\ trips = {}
  /\ nextTrip = 0
  /\ places = {}
  /\ caches = {}
  /\ saved = {}
  /\ slot = [p \in Procs |-> Idle]
  /\ reply = None

\* a payload that passes validation
ValidPlace(e, l) ==
  Some([place_id |-> e, geometry |-> Some([location |-> Some(l)]),
        formatted_address |-> "addr"])
Origin == [lat |-> 0, lng |-> 0]
\* one payload for each way of failing validation
InvalidPlaces ==
  {None,
   Some([place_id |-> "", geometry |-> Some([location |-> Some(Origin)]),
         formatted_address |-> "addr"]),
   Some([place_id |-> Absent, geometry |-> Some([location |-> Some(Origin)]),
         formatted_address |-> "addr"]),
   Some([place_id |-> "X1", geometry |-> None, formatted_address |-> "addr"]),
   Some([place_id |-> "X1", geometry |-> Some([location |-> None]),
         formatted_address |-> "addr"])}

\* ---- the handlers' later steps, shared by every specification
DefaultTrip == \E p \in Procs : CreateDefaultTrip(p)
PlaceLookup == \E p \in Procs : FindPlace(p)
PlaceInsert == \E p \in Procs : CreatePlace(p)
SavedLookup == \E p \in Procs : FindSaved(p)
SavedInsert == \E p \in Procs : CreateSaved(p)
Handle == \E p \in Procs : IngestStart(p)
DeleteEnd == \E p \in Procs : DeleteTripDelete(p)

\* ---- Spec: the life of the ledger entries of one place.  Ingestions into
\* the default trip, interleaved with status and notes updates and with the
\* clock.  User 1 ingests and updates with every status and note; user 2 saves
\* the same place with the defaults and leaves its entry alone.
LedgerInputs ==
  ({1} \X StatusInputs \X NoteInputs) \cup ({2} \X {Absent} \X {Absent})
Ingest ==
  \E in \in LedgerInputs :
    IngestBegin(1, in[1], ValidPlace("X1", Origin), in[2], in[3], Absent)
UpdateStatus ==
  \E e \in ExternalIds, status \in StatusInputs, userNotes \in NoteInputs :
    UpdatePlaceStatus(1, e, status, userNotes)

Next ==
  \/ Tick
  \/ Ingest
  \/ DefaultTrip
  \/ PlaceLookup
  \/ PlaceInsert
  \/ SavedLookup
  \/ SavedInsert
  \/ UpdateStatus

Spec == Init /\ [][Next]_vars

\* ---- SpecRace: every handler slot runs ingestions of one external id, by
\* either user, into the default trip or into trip t1
RaceIngest ==
  \E p \in Procs, u \in Users, trip_id \in {Absent, "t1"} :
    IngestBegin(p, u, ValidPlace("X1", Origin), Absent, Absent, trip_id)

NextRace ==
  \/ RaceIngest
  \/ DefaultTrip
  \/ PlaceLookup
  \/ PlaceInsert
  \/ SavedLookup
  \/ SavedInsert

SpecRace == Init /\ [][NextRace]_vars

\* ---- SpecSeq: requests one after the other, each handler running to its
\* response before the next request starts; every way of failing validation,
\* every trip id, trips created and deleted
Quiet == \A p \in Procs : Free(p)
\* a payload that fails validation comes with no other input or with all of
\* them, a valid one with every trip id
SeqInputs ==
  {<<place, Absent, Absent, Absent>> : place \in InvalidPlaces}
    \cup {<<place, VISITED, "n1", "t1">> : place \in InvalidPlaces}
    \cup ({ValidPlace("X1", Origin)} \X {Absent} \X {Absent} \X TripIdInputs)
SeqIngest ==
  /\ Quiet
  /\ \E u \in Users, in \in SeqInputs :
       Authenticate(1, u, in[1], in[2], in[3], in[4])
SeqNewTrip ==
  /\ Quiet
  /\ \E u \in Users, name \in TripNameInputs : CreateTrip(u, name)
SeqDeleteBegin ==
  /\ Quiet
  /\ \E u \in Users, id \in TripIdInputs \ {Absent} : DeleteTripBegin(1, u, id)

NextSeq ==
  \/ Tick
  \/ SeqIngest
  \/ Handle
  \/ DefaultTrip
  \/ PlaceLookup
  \/ PlaceInsert
  \/ SavedLookup
  \/ SavedInsert
  \/ SeqNewTrip
  \/ SeqDeleteBegin
  \/ DeleteEnd

SpecSeq == Init /\ [][NextSeq]_vars

\* ---- SpecNear: the nearby query over the ledger of three places on one
\* meridian.  Requests one after the other.  User 1 saves any of the places,
\* X1 as WISHLIST or VISITED, changes the status of X1 and asks for what is
\* nearby; user 2 saves X1.
LatOf == [e \in ExternalIds |->
            CASE e = "X1" -> 0 [] e = "X2" -> 3 [] e = "X3" -> 8]
PlaceAt(e) == ValidPlace(e, [lat |-> LatOf[e], lng |-> 0])
NearSaves ==
  ({1} \X ExternalIds \X {Absent}) \cup {<<1, "X1", VISITED>>, <<2, "X1", Absent>>}
NearIngest ==
  /\ Quiet
  /\ \E in \in NearSaves :
       IngestBegin(1, in[1], PlaceAt(in[2]), in[3], Absent, Absent)
NearUpdate ==
  /\ Quiet
  /\ \E status \in {WISHLIST, VISITED} :
       UpdatePlaceStatus(1, "X1", status, Absent)
\* query strings: latitudes, longitudes and radii that pass validation ...
LatTexts == {<<"0">>, <<"1">>, <<"1", ".", "5">>, <<"3">>, <<"8">>}
RadiusTexts == {<<"0", ".", "0", "5">>, <<"6", "0", "0", "0", "0", "0">>}
ValidQueries ==
  {<<Some(lat), Some(<<"0">>), radius, status>> :
     lat \in LatTexts,
     radius \in {None} \cup {Some(r) : r \in RadiusTexts},
     status \in {Absent, WISHLIST, VISITED}}
\* ... and one query for every way of failing it, and a status that is not
\* of the enum
InvalidLatLng == {None, Some(<<>>), Some(<<"x">>)}
InvalidQueries ==
  {<<lat, Some(<<"0">>), None, Absent>> :
     lat \in InvalidLatLng \cup {Some(<<"9", "1">>), Some(<<"-", "9", "1">>)}}
  \cup {<<Some(<<"0">>), lng, Some(<<"1">>), VISITED>> :
          lng \in InvalidLatLng \cup {Some(<<"1", "8", "1">>),
                                      Some(<<"-", "1", "8", "1">>)}}
  \cup {<<Some(<<"0">>), Some(<<"0">>), Some(radius), Absent>> :
          radius \in {<<"x">>, <<"0">>, <<"-", "1">>}}
NearQueries ==
  ValidQueries \cup InvalidQueries
    \cup {<<Some(<<"8", "x">>), Some(<<"0">>), None, Absent>>,
          <<Some(<<"0">>), Some(<<"0">>), None, BOGUS>>}
NearQuery ==
  /\ Quiet
  /\ \E q \in NearQueries : NearbyArrive(1, 1, q[1], q[2], q[3], q[4])
NearAnswer == \E p \in Procs : NearbyStart(p)
NextNear ==
  \/ NearIngest
  \/ DefaultTrip
  \/ PlaceLookup
  \/ PlaceInsert
  \/ SavedLookup
  \/ SavedInsert
  \/ NearUpdate
  \/ NearQuery
  \/ NearAnswer

SpecNear == Init /\ [][NextNear]_vars

\* ---- SpecCache: the life of one cached place.  Requests one after the
\* other: both users save X1, with payloads that differ in coordinates and
\* address; days pass; user 1 reads through each of the three readers.
RetentionDays == 30
CachePayloads ==
  {ValidPlace("X1", Origin),
   Some([place_id |-> "X1",
         geometry |-> Some([location |-> Some([lat |-> 3, lng |-> 0])]),
         formatted_address |-> "addr2"])}
CacheIngest ==
  /\ Quiet
  /\ \E u \in Users, place \in CachePayloads :
       IngestBegin(1, u, place, Absent, Absent, Absent)
\* the retention window passes, to the day or by one day more
Wait ==
  /\ Quiet
  /\ \E d \in {RetentionDays, RetentionDays + 1} :
       /\ now + d <= MaxDays
       /\ now' = now + d
  /\ reply' = None
  /\ UNCHANGED <<trips, nextTrip, places, caches, saved, slot>>
ReadSaved == Quiet /\ GetSavedPlaces(1)
ReadAll == Quiet /\ GetAllPlaces(1)
\* a query that passes validation and one that fails it
ReadNearby ==
  /\ Quiet
  /\ \E radius \in {<<"6", "0", "0", "0", "0", "0">>, <<"0">>} :
       GetNearbyPlaces(1, Some(<<"0">>), Some(<<"0">>), Some(radius), Absent)
  /\ UNCHANGED slot
NextCache ==
  \/ CacheIngest
  \/ DefaultTrip
  \/ PlaceLookup
  \/ PlaceInsert
  \/ SavedLookup
  \/ SavedInsert
  \/ Wait
  \/ ReadSaved
  \/ ReadAll
  \/ ReadNearby

SpecCache == Init /\ [][NextCache]_vars

\* ---- SpecTrips: ingestions of one place interleaved with the life of the
\* trips.  Slot 1 runs the ingestions, of either user, into the default trip
\* or into trip t1; slot 2 runs the updates and deletions of trips; trips are
\* created and statuses updated in between.
UpdateEnd == \E p \in Procs : UpdateTripUpdate(p)
TripsIngest ==
  \E u \in Users, trip_id \in {Absent, "t1"} :
    IngestBegin(1, u, ValidPlace("X1", Origin), Absent, Absent, trip_id)
TripsNew == \E u \in Users : CreateTrip(u, <<" ", "Goa", " ">>)
TripsUpdateBegin ==
  \E u \in Users, id \in TripIdInputs \ {Absent},
     name \in {None, Some(<<" ">>), Some(<<"Goa">>)} :
    UpdateTripBegin(2, u, id, name)
TripsDeleteBegin ==
  \E u \in Users, id \in TripIdInputs \ {Absent} : DeleteTripBegin(2, u, id)
TripsUpdateStatus ==
  \E u \in Users, status \in {VISITED, SKIPPED} :
    UpdatePlaceStatus(u, "X1", status, Absent)

NextTrips ==
  \/ TripsIngest
  \/ DefaultTrip
  \/ PlaceLookup
  \/ PlaceInsert
  \/ SavedLookup
  \/ SavedInsert
  \/ TripsNew
  \/ TripsUpdateBegin
  \/ UpdateEnd
  \/ TripsDeleteBegin
  \/ DeleteEnd
  \/ TripsUpdateStatus

SpecTrips == Init /\ [][NextTrips]_vars

\* ------------------------------------------------------------------ claims
IngestPcs == {"createTrip", "findPlace", "createPlace", "findSaved", "createSaved"}
\* the external id an ingestion in flight carries
PlaceIdOf(p) == Val(slot[p].place).place_id
Replied(op, code) ==
  IsSome(reply) /\ Val(reply).op = op /\ Val(reply).code = code
AlreadySaved == "You have already saved this place"

\* C1: whatever the interleaving of concurrent ingestions, at most one Place
\* row exists for every external place id.
C1_OnePlacePerExternalId ==
  \A e \in ExternalIds : Cardinality(PlaceByPlaceId(e)) <= 1
\* an ingestion that found no Place is about to insert one, and another
\* ingestion has inserted it in the meantime
C1_Witness ==
  \E p \in Procs : slot[p].pc = "createPlace" /\ PlaceByPlaceId(PlaceIdOf(p)) # {}

\* C3: in every reachable state there is at most one SavedPlace row for every
\* (userId, placeId), across all trips.
C3_OneSavedPerUserPlace ==
  \A u \in Users, e \in ExternalIds :
    Cardinality(SavedByUserPlace(saved, u, e)) <= 1
\* an ingestion that found no SavedPlace is about to insert one into another
\* trip than the one a concurrent ingestion of the same user has just used
C3_Witness ==
  \E p \in Procs :
    /\ slot[p].pc = "createSaved"
    /\ \E r \in SavedByUserPlace(saved, slot[p].user, PlaceIdOf(p)) :
         r.tripId # slot[p].tripId

\* C4: the writes of one ingestion are all-or-nothing.  No state shows the
\* Place of an ingestion that has not written its SavedPlace yet, and an
\* ingestion that ends in a failure leaves no Place it has written.
C4_NoPartialState ==
  \A p \in Procs : slot[p].wrote => PlaceByPlaceId(PlaceIdOf(p)) = {}
C4_FailureLeavesNothing ==
  \A p \in Procs :
    (slot[p].wrote /\ slot'[p].pc = "idle" /\ IsSome(reply')
       /\ Val(reply').code = 500)
      => \A r \in places' : r.placeId # PlaceIdOf(p)
C4_AllOrNothing == []C4_NoPartialState /\ [][C4_FailureLeavesNothing]_vars

\* C5: the ingestion that loses a race on a uniqueness constraint answers with
\* the "already saved" conflict, not with a server fault.
C5_LoserGetsConflict ==
  (IsSome(reply) /\ Val(reply).op = "addPlace"
     /\ Val(reply).error = "UniqueConstraint")
    => (Val(reply).code = 400 /\ Val(reply).message = AlreadySaved)

\* C2: an ingestion by a user for a place that user has already saved creates
\* no second SavedPlace row and answers with the conflict carrying the stored
\* row.  With one ingestion at a time, the ingestion never gets to an insert
\* while the row exists, and its ledger lookup returns the row and writes
\* nothing.
C2_NeverInserts ==
  \A p \in Procs :
    slot[p].pc \in {"createPlace", "createSaved"}
      => SavedByUserPlace(saved, slot[p].user, PlaceIdOf(p)) = {}
C2_LookupConflicts ==
  \A p \in Procs :
    (slot[p].pc = "findSaved" /\ slot'[p] # slot[p]
       /\ SavedByUserPlace(saved, slot[p].user, PlaceIdOf(p)) # {})
      => /\ saved' = saved
         /\ slot'[p].pc = "idle"
         /\ IsSome(reply')
         /\ Val(reply').code = 400
         /\ Val(reply').message = AlreadySaved
         /\ IsSome(Val(reply').data)
         /\ Val(Val(reply').data)
              \in SavedByUserPlace(saved, slot[p].user, PlaceIdOf(p))
C2_ConflictReturnsOriginal == []C2_NeverInserts /\ [][C2_LookupConflicts]_vars
\* the conflict has been answered with a row that was created earlier, and
\* updated since
C2_Witness ==
  /\ Replied("addPlace", 400)
  /\ Val(reply).message = AlreadySaved
  /\ Val(Val(reply).data) \in saved
  /\ Val(Val(reply).data).createdAt < now
  /\ Val(Val(reply).data).status = SKIPPED

\* C6: in every reachable state every SavedPlace row has visitedAt set if and
\* only if its status is VISITED.
C6_VisitedAtIffVisited ==
  \A r \in saved : IsSome(r.visitedAt) <=> r.status = VISITED
\* an update has just moved a row that was created earlier to SKIPPED, next
\* to the row of another user
C6_Witness ==
  /\ Replied("updateStatus", 200)
  /\ Val(Val(reply).data).status = SKIPPED
  /\ Val(Val(reply).data).createdAt < now
  /\ Val(Val(reply).data) \in saved
  /\ \E r \in saved : r.userId # Val(reply).user

\* C7: updatePlaceStatus writes only the fields it is given.  Without a status
\* the row keeps status and visitedAt, without notes it keeps userNotes, and it
\* always keeps id, tripId, placeId, userId and createdAt.
\* (a step that leaves the table as it is keeps every row)
C7_PartialUpdate ==
  saved' # saved =>
    \A u \in Users, e \in ExternalIds, status \in StatusInputs,
       userNotes \in NoteInputs :
      UpdatePlaceStatus(u, e, status, userNotes)
        => \A r \in SavedByUserPlace(saved, u, e) :
             \E n \in saved' :
               /\ n.id = r.id /\ n.userId = r.userId /\ n.placeId = r.placeId
               /\ n.tripId = r.tripId /\ n.createdAt = r.createdAt
               /\ status = Absent
                    => n.status = r.status /\ n.visitedAt = r.visitedAt
               /\ userNotes = Absent => n.userNotes = r.userNotes
C7_UpdateIsPartial == [][C7_PartialUpdate]_vars
\* an update has just answered with a row whose visitedAt is older than the
\* update (it carried no status) and whose notes are set
C7_Witness ==
  /\ Replied("updateStatus", 200)
  /\ Val(Val(reply).data).status = VISITED
  /\ Val(Val(Val(reply).data).visitedAt) < now
  /\ Val(Val(reply).data).userNotes = "n1"

\* the payload has no place object, no non-empty place_id, or no
\* geometry.location
LacksRequired(place) ==
  \/ place = None
  \/ Val(place).place_id \in {"", Absent}
  \/ Val(place).geometry = None
  \/ Val(Val(place).geometry).location = None

\* C8: an ingestion whose payload lacks the place object, the external id or
\* the coordinates is answered with a 400 and leaves every table as it was,
\* whatever its trip id, status and notes.
C8_Rejects ==
  \A p \in Procs :
    (slot[p].pc = "handler" /\ slot'[p] # slot[p]
       /\ LacksRequired(slot[p].place))
      => /\ IsSome(reply') /\ Val(reply').code = 400
         /\ slot'[p].pc = "idle"
         /\ tables' = tables
C8_InvalidPayloadRejected == [][C8_Rejects]_vars
\* a payload without coordinates has just been rejected while the tables hold
\* rows
C8_Witness ==
  /\ Replied("addPlace", 400)
  /\ Val(reply).message = "Place coordinates (geometry.location) are required"
  /\ trips # {} /\ places # {} /\ saved # {}

\* C9: an ingestion with a trip id gets 404 when no trip has that id and 403
\* when the trip belongs to another user, and in both cases leaves every table
\* as it was.
C9_Resolves ==
  \A p \in Procs :
    (slot[p].pc = "handler" /\ slot'[p] # slot[p]
       /\ ~LacksRequired(slot[p].place) /\ slot[p].trip_id # Absent)
      => LET u == slot[p].user
             trip_id == slot[p].trip_id
         IN /\ TripById(trip_id) = {}
                 => /\ IsSome(reply') /\ Val(reply').code = 404
                    /\ slot'[p].pc = "idle" /\ tables' = tables
            /\ (\E t \in TripById(trip_id) : t.userId # u)
                 => /\ IsSome(reply') /\ Val(reply').code = 403
                    /\ slot'[p].pc = "idle" /\ tables' = tables
C9_TripNotFoundOrForbidden == [][C9_Resolves]_vars
\* the ingestion into somebody else's trip has just been refused
C9_Witness ==
  /\ Replied("addPlace", 403)
  /\ \E t \in trips : t.userId # Val(reply).user

\* C10: a valid ingestion without trip id and status, by a user without trips,
\* of an external id not stored yet, answers 201 and leaves exactly one trip of
\* the user (the default trip), one Place and one PlaceCache for the id, the
\* cache fetched when the Place was created, and one SavedPlace of the user
\* for the place, in that trip, WISHLIST and not visited.
C10_Result ==
  \A p \in Procs :
    (slot[p].pc \in IngestPcs /\ slot'[p].pc = "idle" /\ slot[p].fresh
       /\ slot[p].trip_id = Absent /\ slot[p].status = Absent)
      => LET u == slot[p].user
             e == PlaceIdOf(p)
             ts == {t \in trips' : t.userId = u}
             ps == {r \in places' : r.placeId = e}
             cs == {r \in caches' : r.placeId = e}
             ss == {r \in saved' : r.userId = u /\ r.placeId = e}
         IN /\ IsSome(reply') /\ Val(reply').code = 201
            /\ Cardinality(ts) = 1 /\ \A t \in ts : t.name = MyTrip
            /\ Cardinality(ps) = 1 /\ Cardinality(cs) = 1
            /\ \A r \in ps, c \in cs :
                 c.fetchedAt = r.createdAt /\ c.fetchedAt <= now'
            /\ Cardinality(ss) = 1
            /\ \A r \in ss, t \in ts :
                 /\ r.tripId = t.id /\ r.status = WISHLIST
                 /\ r.visitedAt = None
                 /\ Val(reply').data = Some(r)
C10_FirstIngestion == [][C10_Result]_vars
\* the first ingestion into an empty store has been answered, after the clock
\* moved
C10_Witness ==
  /\ Replied("addPlace", 201)
  /\ Cardinality(trips) = 1 /\ Cardinality(places) = 1
  /\ Cardinality(caches) = 1 /\ Cardinality(saved) = 1
  /\ \A c \in caches : c.fetchedAt = now /\ now > 0

\* C11: an ingestion of an external id that has a Place leaves the Place and
\* its cache as they are, fetchedAt included, whatever coordinates and address
\* its payload carries and whoever sends it: every step of the ingestions,
\* waits and reads keeps every Place row and every cache row.
C11_RowsKept ==
  /\ \A r \in places : r \in places'
  /\ \A c \in caches : c \in caches'
C11_ReusedVerbatim == [][C11_RowsKept]_vars
\* an ingestion has found the Place of its external id, stored a month ago
\* with other coordinates and another address than its payload has
C11_Witness ==
  \E p \in Procs, r \in places, c \in caches :
    /\ slot[p].pc = "findSaved"
    /\ r.placeId = PlaceIdOf(p) /\ c.placeId = PlaceIdOf(p)
    /\ r.lat # LocationOf(Val(slot[p].place)).lat
    /\ c.formattedAddress # Val(slot[p].place).formatted_address
    /\ c.fetchedAt < now

\* ---- the nearby query a handler in flight answers
QueryOf(p) == Val(slot[p].query)
QueryLat(p) == Val(ParseFloat(Val(QueryOf(p)[1])))
QueryRadius(p) ==
  IF Missing(QueryOf(p)[3]) THEN DefaultRadius
  ELSE Val(ParseFloat(Val(QueryOf(p)[3])))
QueryStatus(p) == QueryOf(p)[4]
\* the query passes validation and its status filter, if any, is of the enum
QueryValid(p) ==
  /\ ValidateNearby(QueryOf(p)[1], QueryOf(p)[2], QueryOf(p)[3]) = "ok"
  /\ Falsy(QueryStatus(p)) \/ QueryStatus(p) \in Status
NearbyAnswered(p) == slot[p].pc = "nearby" /\ slot'[p].pc = "idle"
\* the great-circle distance, in centimetres, between two latitudes of the
\* meridian (hundredths of a degree, whole degrees)
GreatCircleCm(userLat, placeLat) ==
  DistanceCm(Radians(Abs(userLat - 100 * placeLat)))
\* the entries of the user of the query, of the status asked for if any,
\* whose Place is within the radius
InRadius(p) ==
  {r \in saved :
     /\ r.userId = slot[p].user
     /\ Falsy(QueryStatus(p)) \/ r.status = QueryStatus(p)
     /\ \E pl \in places :
          /\ pl.placeId = r.placeId
          /\ GreatCircleCm(QueryLat(p), pl.lat) <= QueryRadius(p)}
\* the entries a 200 of the nearby query carries
Returned(r) ==
  {Val(Val(r).data).places[i].saved : i \in 1..Val(Val(r).data).count}

\* C12: every nearby query that passes validation is answered with exactly
\* the entries of its user (of the status asked for, if any) whose Place is
\* within the radius of the query point.
C12_Exact ==
  \A p \in Procs :
    (NearbyAnswered(p) /\ QueryValid(p))
      => /\ IsSome(reply') /\ Val(reply').code = 200
         /\ Returned(reply') = InRadius(p)
C12_ExactlyWithinRadius == [][C12_Exact]_vars

\* the entries of a 200 of the nearby query, in the order of the answer
Listed(r) == Val(Val(r).data).places
NearbyOk(p) ==
  NearbyAnswered(p) /\ IsSome(reply') /\ Val(reply').code = 200

\* C13: the list a nearby query returns ascends in distance from the query
\* point, after the enrichment: an entry never comes before one whose Place
\* is closer, and the reported distances never decrease along the list.
C13_Ascending ==
  \A p \in Procs :
    NearbyOk(p) =>
      \A i, j \in 1..Len(Listed(reply')) :
        i < j =>
          /\ GreatCircleCm(QueryLat(p), Listed(reply')[i].lat)
               <= GreatCircleCm(QueryLat(p), Listed(reply')[j].lat)
          /\ Listed(reply')[i].distanceMeters
               <= Listed(reply')[j].distanceMeters
          /\ Listed(reply')[i].distanceKm <= Listed(reply')[j].distanceKm
C13_OrderedByDistance == [][C13_Ascending]_vars
\* a nearby query was answered with three places, the second farther than
\* the first
C13_Witness ==
  /\ IsSome(reply) /\ Val(reply).op = "nearby" /\ Val(reply).code = 200
  /\ Len(Listed(reply)) = 3
  /\ Listed(reply)[1].distanceMeters < Listed(reply)[2].distanceMeters

\* the SavedPlace rows of user u
OwnRows(u) == {r \in saved : r.userId = u}
\* the responses of the nearby query in flight on the ledger sv
RepliesOn(p, sv) ==
  NearbyReplies(sv, places, caches, slot[p].user, QueryOf(p)[1],
                QueryOf(p)[2], QueryOf(p)[3], QueryOf(p)[4])

\* C14: a nearby query of user u returns rows of u only, and it is answered
\* as it would be with the rows of the other users taken out of the ledger:
\* two ledgers that differ in the rows of other users only give u the same
\* responses (the Place and cache tables being the same).
C14_OwnRowsDecide ==
  \A p \in Procs :
    NearbyAnswered(p) =>
      /\ reply' \in RepliesOn(p, OwnRows(slot[p].user))
      /\ RepliesOn(p, saved) = RepliesOn(p, OwnRows(slot[p].user))
      /\ Val(reply').code = 200 =>
           \A i \in 1..Len(Listed(reply')) :
             Listed(reply')[i].saved.userId = slot[p].user
C14_OwnRowsOnly == [][C14_OwnRowsDecide]_vars
\* a nearby query of one user was answered with a place that another user
\* has saved as well
C14_Witness ==
  /\ IsSome(reply) /\ Val(reply).op = "nearby" /\ Val(reply).code = 200
  /\ \E i \in 1..Len(Listed(reply)), r \in saved :
       /\ r.userId # Val(reply).user
       /\ r.placeId = Listed(reply)[i].saved.placeId

\* C15: a nearby query with status filter s is answered with rows whose
\* status, as the ledger holds it when the query runs, is s, and with every
\* row of the user of status s within the radius; without a filter the rows
\* within the radius of every status are returned.
C15_FilterExact ==
  \A p \in Procs :
    (NearbyOk(p) /\ QueryValid(p)) =>
      /\ Returned(reply') \subseteq saved
      /\ ~Falsy(QueryStatus(p)) =>
           \A r \in Returned(reply') : r.status = QueryStatus(p)
      /\ \A r \in InRadius(p) : r \in Returned(reply')
C15_CurrentStatusFilter == [][C15_FilterExact]_vars

\* a text that is a decimal number from its first character to its last
Numeric(s) ==
  LET t == IF s # <<>> /\ Head(s) = "-" THEN Tail(s) ELSE s IN
  /\ \E i \in 1..Len(t) : IsDigit(t[i])
  /\ \A i \in 1..Len(t) : IsDigit(t[i]) \/ t[i] = "."
  /\ Cardinality({i \in 1..Len(t) : t[i] = "."}) <= 1
\* the query in flight has no lat or lng, or one that is not a number or is
\* out of range, or a radius that is not a number or is not positive
QueryRejectable(p) ==
  LET lat == QueryOf(p)[1]
      lng == QueryOf(p)[2]
      radius == QueryOf(p)[3]
  IN \/ Missing(lat) \/ Missing(lng)
     \/ ~Numeric(Val(lat)) \/ ~Numeric(Val(lng))
     \/ Val(ParseFloat(Val(lat))) < -9000 \/ Val(ParseFloat(Val(lat))) > 9000
     \/ Val(ParseFloat(Val(lng))) < -18000
     \/ Val(ParseFloat(Val(lng))) > 18000
     \/ /\ ~Missing(radius)
        /\ ~Numeric(Val(radius)) \/ Val(ParseFloat(Val(radius))) <= 0

\* C16: a nearby query whose lat or lng is missing, not a number or out of
\* range, or whose radius is not a number or not positive, is answered with a
\* 400 that carries no place data, never with a 200 or a 500.
C16_Rejected ==
  \A p \in Procs :
    (NearbyAnswered(p) /\ QueryRejectable(p)) =>
      /\ IsSome(reply') /\ Val(reply').code = 400
      /\ Val(reply').data = None
C16_InvalidQueryRejected == [][C16_Rejected]_vars

\* the query in flight has a lat and a lng that pass validation and a radius
\* of 0
ZeroRadius(p) ==
  /\ ValidateNearby(QueryOf(p)[1], QueryOf(p)[2], None) = "ok"
  /\ ~Missing(QueryOf(p)[3])
  /\ ParseFloat(Val(QueryOf(p)[3])) = Some(0)
\* the entries of the user of the query whose Place is at the query point
Coincident(p) ==
  {r \in saved :
     /\ r.userId = slot[p].user
     /\ \E pl \in places :
          pl.placeId = r.placeId /\ 100 * pl.lat = QueryLat(p)}

\* C17, as claimed: a nearby query with radius 0 is answered with exactly the
\* entries of the user whose Place is at the query point.
C17_ZeroReturnsCoincident ==
  \A p \in Procs :
    (NearbyAnswered(p) /\ ZeroRadius(p)) =>
      /\ IsSome(reply') /\ Val(reply').code = 200
      /\ Returned(reply') = Coincident(p)
C17_ZeroRadiusCoincident == [][C17_ZeroReturnsCoincident]_vars
\* C17, amended: a nearby query with radius 0 is rejected with the 400
\* "Radius must be greater than 0" and returns no place, coincident or not.
C17_ZeroRejected ==
  \A p \in Procs :
    (NearbyAnswered(p) /\ ZeroRadius(p)) =>
      /\ IsSome(reply') /\ Val(reply').code = 400
      /\ Val(reply').message = "Radius must be greater than 0"
      /\ Val(reply').data = None
C17_ZeroRadiusRejected == [][C17_ZeroRejected]_vars
\* a query with radius 0 was rejected while its user has a place saved at
\* the query point (latitude 0)
C17_Witness ==
  /\ IsSome(reply) /\ Val(reply).op = "nearby" /\ Val(reply).code = 400
  /\ Val(reply).message = "Radius must be greater than 0"
  /\ \E r \in saved, pl \in places :
       r.userId = Val(reply).user /\ pl.placeId = r.placeId /\ pl.lat = 0

\* the entries Coincident(p) that the status filter of the query, if any,
\* lets through
CoincidentAsked(p) ==
  {r \in Coincident(p) : Falsy(QueryStatus(p)) \/ r.status = QueryStatus(p)}

\* C18: once a user has saved a place, a valid nearby query of that user
\* centred at the place's coordinates, with the entry's status as filter or
\* with none, is answered with a 200 that lists the entry at distance 0, and
\* lists nothing else when it is the user's only entry.
C18_OwnPlaceFound ==
  \A p \in Procs :
    (NearbyAnswered(p) /\ QueryValid(p)) =>
      \A r \in CoincidentAsked(p) :
        /\ IsSome(reply') /\ Val(reply').code = 200
        /\ \E i \in 1..Len(Listed(reply')) :
             /\ Listed(reply')[i].saved = r
             /\ Listed(reply')[i].distanceMeters = 0
        /\ OwnRows(slot[p].user) = {r} => Returned(reply') = {r}
C18_IngestThenNearby == [][C18_OwnPlaceFound]_vars

\* C19: the distance of the nearby query is the great-circle distance on a
\* sphere of radius 6371 km.  For every valid query and every Place the
\* distance is defined, is 0 when the Place is at the query point, is the
\* same with the two points exchanged and is within 1% of 111.2 km
\* (11120000 cm) when they are one degree of latitude apart; every listed entry reports it rounded
\* to the nearest metre and to the nearest hundredth of a kilometre.
C19_Distance ==
  \A p \in Procs :
    (NearbyAnswered(p) /\ QueryValid(p)) =>
      /\ \A pl \in places :
           LET d == DistanceKm(QueryLat(p), pl) IN
           /\ IsSome(d)
           /\ 100 * pl.lat = QueryLat(p) => d = Some(0)
           /\ QueryLat(p) % 100 = 0 =>
                d = DistanceKm(100 * pl.lat, [lat |-> QueryLat(p) \div 100])
           /\ Abs(QueryLat(p) - 100 * pl.lat) = 100 =>
                100 * Abs(Val(d) - 11120000) <= 11120000
      /\ IsSome(reply') /\ Val(reply').code = 200
      /\ \A i \in 1..Len(Listed(reply')) :
           LET d == GreatCircleCm(QueryLat(p), Listed(reply')[i].lat) IN
           /\ Listed(reply')[i].distanceMeters = RoundTo(d, 100)
           /\ Listed(reply')[i].distanceKm = RoundTo(d, 1000)
C19_GreatCircleDistance == [][C19_Distance]_vars

\* the Place-with-cache values a 200 of a reader carries ...
PlacesIn(r) ==
  LET d == Val(Val(r).data) IN
  IF Val(r).op = "getSaved" THEN {e.place : e \in d}
  ELSE IF Val(r).op = "getAll" THEN d
  ELSE {d.places[i].place : i \in 1..d.count}
\* ... and the cache rows among them
CachesIn(r) ==
  {Val(Val(x).cache) : x \in {y \in PlacesIn(r) : IsSome(y) /\ IsSome(Val(y).cache)}}

\* C20: no reader (getNearbyPlaces, getSavedPlaces, getAllPlaces) returns a
\* cache row fetched more than 30 days before the read: every cache row in a
\* reader's 200 has now - fetchedAt <= 30 days.
C20_NoStaleCache ==
  (/\ IsSome(reply)
   /\ Val(reply).op \in {"nearby", "getSaved", "getAll"}
   /\ Val(reply).code = 200)
    => \A c \in CachesIn(reply) : now - c.fetchedAt <= RetentionDays

\* C21: updatePlaceStatus for a (userId, placeId) that has no SavedPlace row
\* is answered with a client fault (a 4xx, not found), not with a server
\* fault, and leaves every table as it was.
C21_MissingPair ==
  (IsSome(reply') /\ Val(reply').op = "updateStatus") =>
    \A u \in Users, e \in ExternalIds, status \in Status \cup {Absent},
       userNotes \in NoteInputs :
      (UpdatePlaceStatus(u, e, status, userNotes)
         /\ SavedByUserPlace(saved, u, e) = {})
        => /\ Val(reply').code \in 400..499
           /\ tables' = tables
C21_UpdateOfMissingPair == [][C21_MissingPair]_vars

\* C22: in every reachable state, under any interleaving of ingestions, trip
\* creations, updates and deletions and status updates, the tripId of every
\* SavedPlace row is the id of a Trip of the row's user and its placeId is
\* the external id of a Place.
C22_ReferencesHold ==
  \A r \in saved :
    /\ \E t \in trips : t.id = r.tripId /\ t.userId = r.userId
    /\ \E pl \in places : pl.placeId = r.placeId
\* an ingestion is about to insert its SavedPlace into a trip that has been
\* deleted since the ingestion checked it, while the ledger holds a row
C22_Witness ==
  /\ saved # {}
  /\ \E p \in Procs :
       slot[p].pc = "createSaved" /\ TripById(slot[p].tripId) = {}

\* C23: getNearbyPlaces, getSavedPlaces and getAllPlaces leave the Trip,
\* Place, PlaceCache and SavedPlace tables as they are, whether they answer
\* with data or with a validation error: every step that ends in the response
\* of a reader keeps the four tables.
C23_ReadersKeepTables ==
  (IsSome(reply') /\ Val(reply').op \in {"nearby", "getSaved", "getAll"})
    => tables' = tables
C23_ReadsAreReadOnly == [][C23_ReadersKeepTables]_vars
\* a nearby query has just failed validation while the tables hold rows,
\* the cache row older than the retention window
C23_Witness ==
  /\ Replied("nearby", 400)
  /\ trips # {} /\ places # {} /\ saved # {}
  /\ \E c \in caches : now - c.fetchedAt > RetentionDays

\* C24: an ingestion that ends in the "already saved" conflict has created
\* no row: no Trip, no Place with its cache, no SavedPlace; and the SavedPlace
\* it found is left as it was, whatever trip id, status and notes it carried.
C24_ConflictWritesNothing ==
  \A p \in Procs :
    (/\ slot[p].pc = "findSaved" /\ slot'[p].pc = "idle"
     /\ IsSome(reply') /\ Val(reply').message = AlreadySaved)
      => /\ ~slot[p].madeTrip
         /\ ~slot[p].wrote
         /\ tables' = tables
C24_ConflictCreatesNoRow == [][C24_ConflictWritesNothing]_vars

\* the default trips of user u
DefaultTrips(u) == {t \in trips : t.userId = u /\ t.name = MyTrip}
\* ingestion p has no trip id and has resolved its trip
InDefaultTrip(p) ==
  slot[p].pc \in IngestPcs \ {"createTrip"} /\ slot[p].trip_id = Absent

\* C25: whatever the interleaving of the ingestions without trip id of a
\* user, two concurrent first ingestions included, the user has at most one
\* default trip ("My Trip") and all these ingestions save into the same trip.
C25_OneDefaultTrip ==
  /\ \A u \in Users : Cardinality(DefaultTrips(u)) <= 1
  /\ \A p, q \in Procs :
       (InDefaultTrip(p) /\ InDefaultTrip(q) /\ slot[p].user = slot[q].user)
         => slot[p].tripId = slot[q].tripId

\* C26: visitedAt gets a new timestamp exactly when an entry enters VISITED:
\* a row created as VISITED or moved into VISITED from another status has
\* visitedAt = now, and a row that is VISITED before and after a step keeps
\* the visitedAt it had.
C26_StampedOnEntry ==
  \A n \in saved' :
    /\ (n.status = VISITED /\ \A r \in saved : r.id # n.id)
         => n.visitedAt = Some(now)
    /\ \A r \in saved :
         r.id = n.id =>
           /\ (r.status # VISITED /\ n.status = VISITED)
                => n.visitedAt = Some(now)
           /\ (r.status = VISITED /\ n.status = VISITED)
                => n.visitedAt = r.visitedAt
C26_VisitedAtOnTransition == [][C26_StampedOnEntry]_vars

\* C27: updatePlaceStatus of user u for place p changes at most the row
\* (u, p).  A step that ends in its response keeps Trip, Place and PlaceCache,
\* adds and removes no SavedPlace row, and keeps every row of another user
\* (for the same place too) and every row of u for another place; a failed
\* update keeps the whole ledger.
C27_OneRowAtMost ==
  (IsSome(reply') /\ Val(reply').op = "updateStatus") =>
    /\ UNCHANGED <<trips, places, caches>>
    /\ Cardinality(saved') = Cardinality(saved)
    /\ IF Val(reply').code = 200
         THEN \A r \in saved :
                (r.userId # Val(reply').user
                   \/ r.placeId # Val(Val(reply').data).placeId)
                  => r \in saved'
         ELSE saved' = saved
C27_UpdateTouchesOneRow == [][C27_OneRowAtMost]_vars
\* an update has changed a row while the ledger holds a row of another user
\* for the same place and a row of the same user for another place
C27_Witness ==
  /\ Replied("updateStatus", 200)
  /\ Val(Val(reply).data).status = VISITED
  /\ \E r \in saved :
       /\ r.userId # Val(reply).user
       /\ r.placeId = Val(Val(reply).data).placeId
       /\ r.status # VISITED
  /\ \E r \in saved :
       /\ r.userId = Val(reply).user
       /\ r.placeId # Val(Val(reply).data).placeId

\* C28: when different users ingest the same unknown external id at the same
\* time, with valid payloads and trips, every one of them succeeds and one
\* Place with one cache is created.  An ingestion that has passed its checks,
\* of a user who has not saved the place and has no other ingestion in
\* flight, ends with 201, a SavedPlace of its user and exactly one Place and
\* one cache for the id.
C28_EachUserSucceeds ==
  \A p \in Procs :
    (/\ slot[p].pc \in IngestPcs /\ slot'[p].pc = "idle"
     /\ SavedByUserPlace(saved, slot[p].user, PlaceIdOf(p)) = {}
     /\ \A q \in Procs \ {p} :
          slot[q].pc \in IngestPcs => slot[q].user # slot[p].user)
      => /\ IsSome(reply') /\ Val(reply').code = 201
         /\ SavedByUserPlace(saved', slot[p].user, PlaceIdOf(p)) # {}
         /\ Cardinality({r \in places' : r.placeId = PlaceIdOf(p)}) = 1
         /\ Cardinality({c \in caches' : c.placeId = PlaceIdOf(p)}) = 1
C28_ConcurrentUsersBothSucceed == [][C28_EachUserSucceeds]_vars

\* C29: deleteTrip by the owner removes the trip and exactly the SavedPlace
\* rows of that trip, and keeps every Place, every cache and the SavedPlace
\* rows of other trips; the users whose rows went have no entry for those
\* places any more, and an ingestion of a place its user has no entry for is
\* never answered with the conflict: it goes on to insert a new SavedPlace
\* and ends with 201.
C29_DeleteThenIngest ==
  \A p \in Procs :
    /\ (slot[p].pc = "deleteTrip" /\ slot'[p].pc = "idle"
          /\ IsSome(reply') /\ Val(reply').code = 200)
         => /\ trips' = {t \in trips : t.id # slot[p].tripId}
            /\ \E t \in trips : t.id = slot[p].tripId /\ t.userId = slot[p].user
            /\ saved' = {r \in saved : r.tripId # slot[p].tripId}
            /\ UNCHANGED <<places, caches>>
            /\ \A r \in saved \ saved' :
                 SavedByUserPlace(saved', r.userId, r.placeId) = {}
    /\ (slot[p].pc \in {"findSaved", "createSaved"} /\ slot'[p] # slot[p]
          /\ SavedByUserPlace(saved, slot[p].user, PlaceIdOf(p)) = {})
         => IF slot[p].pc = "findSaved"
              THEN slot'[p].pc = "createSaved" /\ saved' = saved
              ELSE /\ IsSome(reply') /\ Val(reply').code = 201
                   /\ Cardinality(saved') = Cardinality(saved) + 1
                   /\ Val(Val(reply').data) \in saved'
C29_DeleteTripCascade == [][C29_DeleteThenIngest]_vars
\* a place stored earlier has just been saved into trip t2, as the only entry
\* of the ledger, after trip t1 was deleted
C29_Witness ==
  /\ Replied("addPlace", 201)
  /\ saved = {Val(Val(reply).data)}
  /\ Val(Val(reply).data).tripId = "t2"
  /\ TripById("t1") = {} /\ nextTrip = 2
  /\ \E r \in places :
       /\ r.placeId = Val(Val(reply).data).placeId
       /\ r.createdAt < Val(Val(reply).data).createdAt

\* C30: in every reachable state every Place row has exactly one PlaceCache
\* row with its external id and every PlaceCache row has its Place.
C30_PlaceAndCachePaired ==
  /\ \A r \in places :
       Cardinality({c \in caches : c.placeId = r.placeId}) = 1
  /\ \A c \in caches : \E r \in places : r.placeId = c.placeId
\* a concurrent place.create has just failed on the unique index, next to
\* the Place and the cache that the winner wrote
C30_Witness ==
  /\ Replied("addPlace", 500)
  /\ Val(reply).error = "UniqueConstraint"
  /\ Cardinality(places) = 1 /\ Cardinality(caches) = 1
  /\ saved = {}

====
